---- MODULE Spec2Model ----
(***************************************************************************)
(* Model of the /transform handler of src/api.py                           *)
(* (transform_property_data): envelope decoding and validation, the        *)
(* per-record flattening loop with its phone scan, and the mapping of      *)
(* exceptions to HTTP status codes.                                        *)
(*                                                                         *)
(* Python values are tagged records: [t |-> "NoneType"],                   *)
(* [t |-> "str", s |-> <<character codes>>], [t |-> "list", l |-> <<..>>], *)
(* [t |-> "dict", d |-> function from key to value].  A request body that  *)
(* is a string is described by what each decoding stage makes of it.       *)
(***************************************************************************)
EXTENDS Integers, Sequences, FiniteSets, TLC

VARIABLES
    body,                        \* the request body as received
    data,                        \* the handler's `data` (reassigned by the string decoding)
    pc,                          \* position in the handler
    results,                     \* data.get('results')
    properties_list,             \* the items of results.get('properties'), once validated
    extracted_properties,        \* the output list under construction
    emitted_from,                \* history: index in properties_list of each emitted record
    idx,                         \* position of the for loop over properties_list (0: not started)
    property_data,               \* the loop variable
    prop_info,                   \* the flat record under construction
    unique_phones_for_property,  \* the per-record phone set
    first_contact_found,         \* the per-record latch
    phone_numbers_list,          \* property_data.get('phone_numbers', [])
    pidx,                        \* position of the for loop over phone_numbers_list
    fault,                       \* the exception in flight ("" when none)
    status,                      \* HTTP status of the response (0: none yet)
    detail,                      \* the HTTPException detail ("" when none)
    response                     \* the response body

vars == <<body, data, pc, results, properties_list, extracted_properties, emitted_from,
          idx, property_data, prop_info, unique_phones_for_property, first_contact_found,
          phone_numbers_list, pidx, fault, status, detail, response>>

-----------------------------------------------------------------------------
(* Bounds of the input space *)

MaxProps == 3       \* longest properties list of the request-level bodies
MaxEntries == 2     \* longest phone_numbers list of the record-level bodies
MaxFlags == 4       \* longest property_flags list of the record-level bodies

-----------------------------------------------------------------------------
(* Python values *)

NoneV == [t |-> "NoneType"]
Str(s) == [t |-> "str", s |-> s]
List(l) == [t |-> "list", l |-> l]
Dict(d) == [t |-> "dict", d |-> d]
EmptyDict == Dict(<<>>)

\* isinstance(v, <type>)
IsInstance(v, type) == v.t = type

\* bool(v)
Truthy(v) ==
    CASE v.t = "NoneType" -> FALSE
      [] v.t = "str"  -> v.s # <<>>
      [] v.t = "list" -> v.l # <<>>
      [] v.t = "dict" -> DOMAIN v.d # {}

\* d.get(k, default) on a dict value
GetOr(v, k, default) == IF k \in DOMAIN v.d THEN v.d[k] ELSE default

\* d.get(k)
Get(v, k) == GetOr(v, k, NoneV)

\* hash(v) succeeds
Hashable(v) == v.t \notin {"list", "dict"}

\* Python's < on str: lexicographic by code point
RECURSIVE StrLess(_, _)
StrLess(a, b) ==
    IF a = <<>> THEN b # <<>>
    ELSE IF b = <<>> THEN FALSE
    ELSE IF Head(a) # Head(b) THEN Head(a) < Head(b)
    ELSE StrLess(Tail(a), Tail(b))

-----------------------------------------------------------------------------
(* HTTP *)

HTTP_200 == 200
HTTP_400 == 400
HTTP_500 == 500

D_Buffer == "Error processing buffer data"
D_Json == "Invalid JSON data"
D_NotDict == "Expected data to be a dictionary"
D_EmptyDict == "Expected data to be a non-empty dictionary"
D_NoResults == "'results' key not found in data"
D_ResultsNotDict == "'results' must be a dictionary"
D_NoProperties == "'properties' key not found in results"
D_PropertiesNotList == "'properties' must be a list"
D_DataStructure == "Error processing data structure"
D_Internal == "Internal server error"

-----------------------------------------------------------------------------
(* The request bodies the model draws from *)

\* all sequences over S of length at most n
SeqsUpTo(S, n) == UNION {[1..k -> S] : k \in 0..n}

S_empty == Str(<<>>)
S_x == Str(<<120>>)                \* "x"
S_A == Str(<<65>>)                 \* "A"
S_B == Str(<<66>>)                 \* "B"
S_P1 == Str(<<80, 49>>)            \* "P1"
S_P2 == Str(<<80, 50>>)            \* "P2"
S_P3 == Str(<<80, 51>>)            \* "P3"
Ph_1 == Str(<<49>>)                \* "1"
Ph_10 == Str(<<49, 48>>)           \* "10"
Ph_5 == Str(<<53>>)                \* "5"
Ph_9 == Str(<<57>>)                \* "9"

\* the name part and the phone part of a contact object
ContactNames ==
    { <<>>, [full_name |-> S_empty], [full_name |-> S_A], [full_name |-> S_B] }
ContactPhones ==
    { <<>>,
      [phone_1 |-> Ph_9, phone_2 |-> Ph_1],
      [phone_1 |-> Ph_10, phone_2 |-> Ph_9, phone_3 |-> Ph_5],
      [phone_1 |-> S_empty, phone_2 |-> NoneV, phone_3 |-> Ph_10] }

\* structured contacts (the one with no key at all is the empty dict)
Contacts == { Dict(n @@ p) : n \in ContactNames, p \in ContactPhones }

\* a contact one of whose phones is a list: set.add() raises TypeError on it
UnhashableContact == Dict([full_name |-> S_B, phone_1 |-> List(<<Ph_5>>)])

\* the elements of a phone_numbers list
PhoneEntries ==
    { Dict([contact |-> c]) : c \in Contacts \cup {NoneV, S_x} }
    \cup { Dict([number |-> Ph_5]), S_x, NoneV }

\* the elements of a property_flags list
FlagEntries ==
    { Dict([label |-> S_A]), Dict([label |-> S_B]), Dict([label |-> S_empty]),
      Dict([label |-> NoneV]), Dict([notlabel |-> S_x]), S_x }

\* (output key, input key) of the scalar fields, in the order of the code
ScalarFields ==
    << <<"property_id", "property_id">>,
       <<"address", "property_address_full">>,
       <<"address_street", "property_address">>,
       <<"address_street2", "property_address2">>,
       <<"address_city", "property_address_city">>,
       <<"address_state", "property_address_state">>,
       <<"address_zip", "property_address_zip">>,
       <<"address_range", "property_address_range">>,
       <<"owner_name", "owner_name">>,
       <<"bedrooms", "total_bedrooms">>,
       <<"baths", "total_baths">>,
       <<"sqft", "building_square_feet">>,
       <<"estimated_value", "EstimatedValue">>,
       <<"equity_percent", "equity_percent">>,
       <<"last_sale_date", "sale_date">>,
       <<"last_sale_price", "saleprice">> >>

\* a record holding the scalar input fields numbered in I, each with its own value
ScalarRecord(I) ==
    Dict([k \in {ScalarFields[i][2] : i \in I} |->
            Str(<<96 + CHOOSE i \in I : ScalarFields[i][2] = k>>)])

\* records that vary the scalar fields: none, each one alone, all
ScalarRecords ==
    { ScalarRecord(I) : I \in {{}, DOMAIN ScalarFields} \cup {{i} : i \in DOMAIN ScalarFields} }

\* records that vary phone_numbers
PhoneRecords ==
    { Dict([property_id |-> S_P1, phone_numbers |-> List(l)]) :
        l \in SeqsUpTo(PhoneEntries, MaxEntries) }
    \cup { Dict([property_id |-> S_P1, phone_numbers |-> v]) : v \in {NoneV, S_x} }
    \cup { Dict([property_id |-> S_P1,
                 phone_numbers |-> List(<<Dict([contact |-> UnhashableContact])>>)]) }

\* records that vary property_flags
FlagRecords ==
    { Dict([property_id |-> S_P1, property_flags |-> List(l)]) :
        l \in SeqsUpTo(FlagEntries, MaxFlags) }
    \cup { Dict([property_id |-> S_P1, property_flags |-> v]) : v \in {NoneV, S_x} }

\* the records of the multi-record bodies: a non-mapping, the empty mapping, a
\* mapping whose property_flags is null, a full record, a mapping with an
\* unhashable phone
R_nondict == S_x
R_empty == EmptyDict
R_flagsnull == Dict([property_id |-> S_P1, property_flags |-> NoneV])
R_full ==
    Dict([property_id |-> S_P2, owner_name |-> S_A,
          property_flags |-> List(<<Dict([label |-> S_A])>>),
          phone_numbers |-> List(<<Dict([contact |->
              Dict([full_name |-> S_A, phone_1 |-> Ph_10, phone_2 |-> Ph_9])])>>)])
R_unhashable ==
    Dict([property_id |-> S_P3,
          phone_numbers |-> List(<<Dict([contact |-> UnhashableContact])>>)])
SiblingRecords == {R_nondict, R_empty, R_flagsnull, R_full, R_unhashable}

\* the envelope {"results": {"properties": v}}
Envelope(v) == Dict([results |-> Dict([properties |-> v])])

\* mapping bodies with a well-formed envelope
EnvelopeBodies ==
    { Envelope(List(l)) : l \in SeqsUpTo(SiblingRecords, MaxProps) }
    \cup { Envelope(List(<<r>>)) : r \in ScalarRecords \cup PhoneRecords \cup FlagRecords }

\* mapping bodies the validation rejects, and bodies that are no mapping
MalformedBodies ==
    { EmptyDict, NoneV,
      Dict([other |-> S_x]),
      Dict([results |-> NoneV]),
      Dict([results |-> EmptyDict]),
      Dict([results |-> S_x]),
      Dict([results |-> List(<<R_full>>)]),
      Dict([results |-> Dict([count |-> S_x])]),
      Envelope(NoneV),
      Envelope(S_x) }

\* list-shaped bodies: empty, a list holding an envelope, a bare record list
ListBodies ==
    { List(<<>>),
      List(<<Envelope(List(<<Dict([property_id |-> S_P1, phone_numbers |-> List(<<>>)])>>))>>),
      List(<<R_full>>), List(<<R_empty, R_full>>) }

\* what a string body decodes to when every stage succeeds
DecodedValues == { Envelope(List(<<R_full>>)), Envelope(List(<<R_nondict>>)),
                   EmptyDict, List(<<R_full>>), S_x }

\* A string body, described by the outcome of each stage applied to it:
\* startswith('IMTBuffer'), len(split(': ')), bytes.fromhex, decode('utf-8'),
\* json.loads ("ok", "JSONDecodeError", or "RecursionError" for text nested
\* deeper than the interpreter's recursion limit) and the value parsed.
StrBody(imt, nparts, hexok, utf8ok, loads, value) ==
    [t |-> "str", imt |-> imt, nparts |-> nparts, hexok |-> hexok, utf8ok |-> utf8ok,
     loads |-> loads, value |-> value]

StringBodies ==
    { StrBody(imt, 2, TRUE, TRUE, "ok", v) : imt \in BOOLEAN, v \in DecodedValues }
    \cup { StrBody(imt, 2, TRUE, TRUE, e, NoneV) :
             imt \in BOOLEAN, e \in {"JSONDecodeError", "RecursionError"} }
    \cup { StrBody(TRUE, n, TRUE, TRUE, "ok", EmptyDict) : n \in {1, 3} }
    \cup { StrBody(TRUE, 2, FALSE, TRUE, "ok", EmptyDict),
           StrBody(TRUE, 2, TRUE, FALSE, "ok", EmptyDict) }

Bodies == EnvelopeBodies \cup MalformedBodies \cup ListBodies \cup StringBodies

-----------------------------------------------------------------------------
(* The record flattener's pure parts *)

\* what iterating v yields (a str yields its characters); v is a list or a str
Items(v) ==
    IF v.t = "list" THEN v.l ELSE [i \in 1..Len(v.s) |-> Str(<<v.s[i]>>)]

\* iter(v) succeeds
Iterable(v) == v.t \in {"list", "str"}

\* the comprehension's condition without its test of the label
KeepFlagAnyObject(flag) ==
    Truthy(flag) /\ IsInstance(flag, "dict")

\* the condition of the flags comprehension
KeepFlag(flag) ==
    Truthy(flag) /\ IsInstance(flag, "dict") /\ Truthy(Get(flag, "label"))

\* [flag.get('label') for flag in items if <KeepFlag>]
RECURSIVE FlagLabels(_)
FlagLabels(items) ==
    IF items = <<>> THEN <<>>
    ELSE (IF KeepFlag(Head(items)) THEN <<Get(Head(items), "label")>> ELSE <<>>)
         \o FlagLabels(Tail(items))

\* the prop_info literal
PropInfo(record) ==
    [k \in {ScalarFields[i][1] : i \in DOMAIN ScalarFields} |->
        Get(record, ScalarFields[CHOOSE i \in DOMAIN ScalarFields : ScalarFields[i][1] = k][2])]
    @@ [first_contact_name |-> NoneV,
        flags |-> List(FlagLabels(Items(GetOr(record, "property_flags", List(<<>>)))))]

\* `if contact_data and isinstance(contact_data, dict)` for the entry's contact
StructuredContact(contact_data) ==
    Truthy(contact_data) /\ IsInstance(contact_data, "dict")

\* the capture without the latch: every named contact overwrites the name
CapturesNameUnlatched(found, contact_data) ==
    Truthy(Get(contact_data, "full_name"))

\* the name captured from a contact: `if not first_contact_found` ... `if full_name`
CapturesName(found, contact_data) ==
    ~found /\ Truthy(Get(contact_data, "full_name"))

\* [contact_data.get('phone_1'), contact_data.get('phone_2'), contact_data.get('phone_3')]
PhoneCandidates(contact_data) ==
    <<Get(contact_data, "phone_1"), Get(contact_data, "phone_2"), Get(contact_data, "phone_3")>>

\* the values the inner loop adds to the set: `if phone`
PhonesToAdd(contact_data) ==
    {PhoneCandidates(contact_data)[i] : i \in {j \in 1..3 : Truthy(PhoneCandidates(contact_data)[j])}}

\* a numeric sort of the set: shorter digit strings first, then by code point
RECURSIVE SortedPhonesNumeric(_)
SortedPhonesNumeric(S) ==
    IF S = {} THEN <<>>
    ELSE LET m == CHOOSE x \in S : \A y \in S \ {x} :
                     \/ Len(x.s) < Len(y.s)
                     \/ Len(x.s) = Len(y.s) /\ StrLess(x.s, y.s)
         IN <<m>> \o SortedPhonesNumeric(S \ {m})

\* sorted(list(S)) for a set of str values: ascending by Python's < on str
RECURSIVE SortedPhones(_)
SortedPhones(S) ==
    IF S = {} THEN <<>>
    ELSE LET m == CHOOSE x \in S : \A y \in S \ {x} : StrLess(x.s, y.s)
         IN <<m>> \o SortedPhones(S \ {m})

\* f'phone_{i}'
PhoneKey(i) == "phone_" \o ToString(i)

\* the keys written by `for i, phone in enumerate(sorted_unique_phones)`
PhoneFields(sorted_unique_phones) ==
    [k \in {PhoneKey(i - 1) : i \in DOMAIN sorted_unique_phones} |->
        sorted_unique_phones[CHOOSE i \in DOMAIN sorted_unique_phones : PhoneKey(i - 1) = k]]

\* the record put at the front of the list instead of its end
PrependRecord(list, rec) == <<rec>> \o list

\* extracted_properties.append(prop_info)
AppendRecord(list, rec) == Append(list, rec)

\* the check of properties_list without its isinstance test
PropertiesProblemUntyped(p) ==
    IF ~Truthy(p) THEN D_NoProperties ELSE ""

\* lines 116-122: the detail of the failure of properties_list, "" when it passes
PropertiesProblem(p) ==
    IF ~Truthy(p) THEN D_NoProperties
    ELSE IF ~IsInstance(p, "list") THEN D_PropertiesNotList
    ELSE ""

\* the body FastAPI sends for an HTTPException
ErrorBody(d) == Dict([detail |-> d])

-----------------------------------------------------------------------------
(* The handler *)

Init ==
    /\ body \in Bodies
    /\ data = body
    /\ pc = "decode"
    /\ results = NoneV
    /\ properties_list = <<>>
    /\ extracted_properties = <<>>
    /\ emitted_from = <<>>
    /\ idx = 0
    /\ property_data = NoneV
    /\ prop_info = <<>>
    /\ unique_phones_for_property = {}
    /\ first_contact_found = FALSE
    /\ phone_numbers_list = NoneV
    /\ pidx = 0
    /\ fault = ""
    /\ status = 0
    /\ detail = ""
    /\ response = NoneV

loopVars == <<properties_list, extracted_properties, emitted_from, idx>>
recordVars == <<property_data, prop_info, unique_phones_for_property, first_contact_found,
                phone_numbers_list, pidx>>

\* raise HTTPException(status_code=s, detail=d): both `except HTTPException: raise`
\* clauses pass it on and the framework answers with it
Raise(s, d) ==
    /\ pc' = "done"
    /\ status' = s
    /\ detail' = d
    /\ response' = ErrorBody(d)

\* no response yet
NoResponse == UNCHANGED <<status, detail, response>>

\* lines 46-93: a string body is decoded (IMTBuffer envelope or plain JSON)
DecodeString ==
    /\ pc = "decode"
    /\ UNCHANGED <<body, results, loopVars, recordVars>>
    /\ IF ~IsInstance(data, "str")
       THEN /\ pc' = "validate"
            /\ UNCHANGED <<data, fault>>
            /\ NoResponse
       ELSE IF data.imt
       THEN \* any failure of a stage is caught by `except Exception` on line 83
            IF data.nparts = 2 /\ data.hexok /\ data.utf8ok /\ data.loads = "ok"
            THEN /\ data' = data.value
                 /\ pc' = "validate"
                 /\ UNCHANGED fault
                 /\ NoResponse
            ELSE /\ Raise(HTTP_400, D_Buffer)
                 /\ UNCHANGED <<data, fault>>
       ELSE \* only JSONDecodeError is caught on line 91
            CASE data.loads = "ok" ->
                    /\ data' = data.value
                    /\ pc' = "validate"
                    /\ UNCHANGED fault
                    /\ NoResponse
              [] data.loads = "JSONDecodeError" ->
                    /\ Raise(HTTP_400, D_Json)
                    /\ UNCHANGED <<data, fault>>
              [] OTHER ->
                    /\ fault' = data.loads
                    /\ pc' = "outer_except"
                    /\ UNCHANGED data
                    /\ NoResponse

\* lines 96-102: the body must be a non-empty dict
BasicValidation ==
    /\ pc = "validate"
    /\ UNCHANGED <<body, data, results, loopVars, recordVars, fault>>
    /\ IF ~IsInstance(data, "dict") THEN Raise(HTTP_400, D_NotDict)
       ELSE IF ~Truthy(data) THEN Raise(HTTP_400, D_EmptyDict)
       ELSE pc' = "results" /\ NoResponse

\* lines 106-113: results = data.get('results') must be a non-empty dict
ExtractResults ==
    /\ pc = "results"
    /\ UNCHANGED <<body, data, loopVars, recordVars, fault>>
    /\ LET r == Get(data, "results") IN
       IF ~Truthy(r) THEN Raise(HTTP_400, D_NoResults) /\ UNCHANGED results
       ELSE IF ~IsInstance(r, "dict") THEN Raise(HTTP_400, D_ResultsNotDict) /\ UNCHANGED results
       ELSE results' = r /\ pc' = "properties" /\ NoResponse

\* lines 115-125: properties_list = results.get('properties') must be a non-empty list
ExtractProperties ==
    /\ pc = "properties"
    /\ UNCHANGED <<body, data, results, recordVars, fault, emitted_from>>
    /\ LET p == Get(results, "properties") IN
       IF PropertiesProblem(p) # ""
       THEN /\ Raise(HTTP_400, PropertiesProblem(p))
            /\ UNCHANGED <<properties_list, extracted_properties, idx>>
       ELSE \* the loop iterates whatever passed the check
            /\ properties_list' = Items(p)
            /\ extracted_properties' = <<>>
            /\ idx' = 1
            /\ pc' = "loop"
            /\ NoResponse

\* line 127: the for loop takes the next record
NextProperty ==
    /\ pc = "loop"
    /\ idx <= Len(properties_list)
    /\ property_data' = properties_list[idx]
    /\ pc' = "flatten"
    /\ UNCHANGED <<body, data, results, loopVars, prop_info, unique_phones_for_property,
                   first_contact_found, phone_numbers_list, pidx, fault>>
    /\ NoResponse

\* lines 129-156: the debug line, the prop_info literal and the start of the phone
\* scan.  property_data.get raises AttributeError when the record is no dict, and
\* the flags comprehension raises TypeError when property_flags is not iterable.
BuildPropInfo ==
    /\ pc = "flatten"
    /\ UNCHANGED <<body, data, results, loopVars, property_data>>
    /\ NoResponse
    /\ IF ~IsInstance(property_data, "dict")
       THEN /\ fault' = "AttributeError"
            /\ pc' = "prop_except"
            /\ UNCHANGED <<prop_info, unique_phones_for_property, first_contact_found,
                           phone_numbers_list, pidx>>
       ELSE IF ~Iterable(GetOr(property_data, "property_flags", List(<<>>)))
       THEN /\ fault' = "TypeError"
            /\ pc' = "prop_except"
            /\ UNCHANGED <<prop_info, unique_phones_for_property, first_contact_found,
                           phone_numbers_list, pidx>>
       ELSE /\ prop_info' = PropInfo(property_data)
            /\ unique_phones_for_property' = {}
            /\ first_contact_found' = FALSE
            /\ phone_numbers_list' = GetOr(property_data, "phone_numbers", List(<<>>))
            /\ pidx' = 1
            /\ pc' = "phones"
            /\ UNCHANGED fault

\* the phone scan has entries left
ScanPending ==
    IsInstance(phone_numbers_list, "list") /\ pidx <= Len(phone_numbers_list.l)

\* lines 159-175: one iteration of the loop over phone_numbers_list
ScanPhoneEntry ==
    /\ pc = "phones"
    /\ ScanPending
    /\ UNCHANGED <<body, data, results, loopVars, property_data, phone_numbers_list>>
    /\ NoResponse
    /\ LET phone_entry == phone_numbers_list.l[pidx]
           contact_data == Get(phone_entry, "contact")
       IN  IF ~IsInstance(phone_entry, "dict") \/ ~StructuredContact(contact_data)
           THEN /\ pidx' = pidx + 1
                /\ UNCHANGED <<pc, prop_info, unique_phones_for_property,
                               first_contact_found, fault>>
           ELSE /\ IF CapturesName(first_contact_found, contact_data)
                   THEN /\ prop_info' = [prop_info EXCEPT !.first_contact_name =
                                            Get(contact_data, "full_name")]
                        /\ first_contact_found' = TRUE
                   ELSE UNCHANGED <<prop_info, first_contact_found>>
                /\ IF \A v \in PhonesToAdd(contact_data) : Hashable(v)
                   THEN /\ unique_phones_for_property' =
                               unique_phones_for_property \cup PhonesToAdd(contact_data)
                        /\ pidx' = pidx + 1
                        /\ UNCHANGED <<pc, fault>>
                   ELSE \* set.add raises TypeError
                        /\ fault' = "TypeError"
                        /\ pc' = "prop_except"
                        /\ UNCHANGED <<unique_phones_for_property, pidx>>

\* lines 177-183: sort, number the phone fields, append the record
AssignPhones ==
    /\ pc = "phones"
    /\ ~ScanPending
    /\ LET sorted_unique_phones == SortedPhones(unique_phones_for_property)
           rec == Dict(PhoneFields(sorted_unique_phones) @@ prop_info)
       IN  /\ prop_info' = rec.d
           /\ extracted_properties' = AppendRecord(extracted_properties, rec)
    /\ emitted_from' = Append(emitted_from, idx)
    /\ idx' = idx + 1
    /\ pc' = "loop"
    /\ UNCHANGED <<body, data, results, properties_list, property_data,
                   unique_phones_for_property, first_contact_found, phone_numbers_list,
                   pidx, fault>>
    /\ NoResponse

\* lines 184-186: the per-record handler logs property_data.get('property_id')
\* and continues; the .get raises AttributeError again when the record is no dict
PropExcept ==
    /\ pc = "prop_except"
    /\ UNCHANGED <<body, data, results, properties_list, extracted_properties,
                   emitted_from, recordVars>>
    /\ NoResponse
    /\ IF IsInstance(property_data, "dict")
       THEN /\ fault' = ""
            /\ idx' = idx + 1
            /\ pc' = "loop"
       ELSE /\ fault' = "AttributeError"
            /\ pc' = "inner_except"
            /\ UNCHANGED idx

\* lines 188-189: the loop is over, the list is returned
ReturnExtracted ==
    /\ pc = "loop"
    /\ idx > Len(properties_list)
    /\ pc' = "done"
    /\ status' = HTTP_200
    /\ response' = List(extracted_properties)
    /\ UNCHANGED <<body, data, results, loopVars, recordVars, fault, detail>>

\* lines 193-195: any other exception inside the inner try becomes a 400
InnerExcept ==
    /\ pc = "inner_except"
    /\ Raise(HTTP_400, D_DataStructure)
    /\ UNCHANGED <<body, data, results, loopVars, recordVars, fault>>

\* lines 199-201: any other exception inside the outer try becomes a 500
OuterExcept ==
    /\ pc = "outer_except"
    /\ Raise(HTTP_500, D_Internal)
    /\ UNCHANGED <<body, data, results, loopVars, recordVars, fault>>

Next ==
    \/ DecodeString
    \/ BasicValidation
    \/ ExtractResults
    \/ ExtractProperties
    \/ NextProperty
    \/ BuildPropInfo
    \/ ScanPhoneEntry
    \/ AssignPhones
    \/ PropExcept
    \/ ReturnExtracted
    \/ InnerExcept
    \/ OuterExcept

Spec == Init /\ [][Next]_vars

-----------------------------------------------------------------------------
(* What the claims speak of, stated from the input rather than from the scan *)

ScalarKeys == {ScalarFields[i][1] : i \in DOMAIN ScalarFields}
BaseKeys == ScalarKeys \cup {"first_contact_name", "flags"}

\* the phone_numbers entries of a record (none when the field is absent or no list)
EntriesOf(record) ==
    IF "phone_numbers" \in DOMAIN record.d /\ record.d.phone_numbers.t = "list"
    THEN record.d.phone_numbers.l ELSE <<>>

\* the entry is an object whose contact is a non-empty object
HasStructuredContact(entry) ==
    /\ entry.t = "dict"
    /\ "contact" \in DOMAIN entry.d
    /\ entry.d.contact.t = "dict"
    /\ DOMAIN entry.d.contact.d # {}

NonEmptyStr(v) == v.t = "str" /\ v.s # <<>>

\* the distinct non-empty phone_1/2/3 values on the structured contacts of entries
PhonesIn(entries) ==
    { v \in UNION { {e.d.contact.d[k] : k \in DOMAIN e.d.contact.d \cap {"phone_1", "phone_2", "phone_3"}} :
                    e \in {entries[i] : i \in {j \in DOMAIN entries : HasStructuredContact(entries[j])}} } :
        NonEmptyStr(v) }

\* positions of the entries whose structured contact has a non-empty full name
NamedAt(entries) ==
    { i \in DOMAIN entries :
        /\ HasStructuredContact(entries[i])
        /\ "full_name" \in DOMAIN entries[i].d.contact.d
        /\ NonEmptyStr(entries[i].d.contact.d.full_name) }

\* the full name of the first such entry, None when there is none
FirstNameIn(entries) ==
    IF NamedAt(entries) = {} THEN NoneV
    ELSE entries[CHOOSE i \in NamedAt(entries) : \A j \in NamedAt(entries) : i <= j].d.contact.d.full_name

\* the property_flags entries of a record
FlagsOf(record) ==
    IF "property_flags" \in DOMAIN record.d /\ record.d.property_flags.t = "list"
    THEN record.d.property_flags.l ELSE <<>>

\* the entry is an object with a non-empty label
Labelled(e) == e.t = "dict" /\ "label" \in DOMAIN e.d /\ NonEmptyStr(e.d.label)

\* the labels of the labelled entries, in order
LabelsIn(entries) ==
    LET kept == SelectSeq(entries, Labelled) IN [i \in DOMAIN kept |-> kept[i].d.label]

\* some structured contact of the record has a phone that cannot be hashed
HasUnhashablePhone(record) ==
    \E i \in DOMAIN EntriesOf(record) :
        /\ HasStructuredContact(EntriesOf(record)[i])
        /\ \E k \in DOMAIN EntriesOf(record)[i].d.contact.d \cap {"phone_1", "phone_2", "phone_3"} :
              EntriesOf(record)[i].d.contact.d[k].t \in {"list", "dict"}

\* the record is malformed: flattening it raises
Malformed(record) ==
    \/ record.t # "dict"
    \/ /\ "property_flags" \in DOMAIN record.d
       /\ record.d.property_flags.t \notin {"list", "str"}
    \/ HasUnhashablePhone(record)

\* the flat record a well-formed record stands for
FlatOf(record) ==
    Dict(PhoneFields(SortedPhones(PhonesIn(EntriesOf(record))))
         @@ [k \in {"first_contact_name"} |-> FirstNameIn(EntriesOf(record))]
         @@ [k \in {"flags"} |-> List(LabelsIn(FlagsOf(record)))]
         @@ [k \in ScalarKeys |->
               LET i == CHOOSE n \in DOMAIN ScalarFields : ScalarFields[n][1] = k
               IN  IF ScalarFields[i][2] \in DOMAIN record.d
                   THEN record.d[ScalarFields[i][2]] ELSE NoneV])

\* the well-formed records of a list, in order
RECURSIVE WellFormedOf(_)
WellFormedOf(list) ==
    IF list = <<>> THEN <<>>
    ELSE (IF Malformed(Head(list)) THEN <<>> ELSE <<Head(list)>>) \o WellFormedOf(Tail(list))

\* the flattening of the well-formed records of a list, in order
FlatList(list) ==
    LET ok == WellFormedOf(list) IN List([i \in DOMAIN ok |-> FlatOf(ok[i])])

\* the source record of the j-th emitted record
SourceOf(j) == properties_list[emitted_from[j]]

\* the details of the validation failures
ValidationDetails ==
    {D_Buffer, D_Json, D_NotDict, D_EmptyDict, D_NoResults, D_ResultsNotDict,
     D_NoProperties, D_PropertiesNotList}

-----------------------------------------------------------------------------
(* Claims *)

\* C1: in every emitted record the numbered fields phone_0 .. phone_{n-1} hold
\* exactly the distinct non-empty phone_1/2/3 values of the structured contacts
\* of its source record: contiguous indices from 0, no value repeated or empty,
\* strictly ascending as strings; a record without phones has no phone_N field.
C1_PhoneFields ==
    \A j \in DOMAIN extracted_properties :
        LET rec == extracted_properties[j].d
            expected == PhonesIn(EntriesOf(SourceOf(j)))
            n == Cardinality(expected)
        IN  /\ DOMAIN rec \ BaseKeys = {PhoneKey(i) : i \in 0..(n - 1)}
            /\ {rec[PhoneKey(i)] : i \in 0..(n - 1)} = expected
            /\ \A i \in 0..(n - 1) : NonEmptyStr(rec[PhoneKey(i)])
            /\ \A i \in 0..(n - 2) : StrLess(rec[PhoneKey(i)].s, rec[PhoneKey(i + 1)].s)

\* C1 witness: a record emitted with four phone fields from two contacts that
\* share a value and list them out of order ("10","9","5" then "9","1")
C1_Witness ==
    \E j \in DOMAIN extracted_properties :
        /\ EntriesOf(SourceOf(j)) =
              << Dict([contact |-> Dict([phone_1 |-> Ph_10, phone_2 |-> Ph_9, phone_3 |-> Ph_5])]),
                 Dict([contact |-> Dict([phone_1 |-> Ph_9, phone_2 |-> Ph_1])]) >>
        /\ "phone_3" \in DOMAIN extracted_properties[j].d
        /\ extracted_properties[j].d.phone_1 = Ph_10

\* C2: first_contact_name is the full name of the first phone_numbers entry, in
\* input order, whose structured contact has a non-empty full name, and None
\* when there is none; during the scan it is the first name among the entries
\* scanned so far (so a later entry never overwrites it), and the phone set holds
\* the phones of every entry scanned so far, before and after the capture.
C2_FirstContact ==
    /\ \A j \in DOMAIN extracted_properties :
          /\ extracted_properties[j].d.first_contact_name = FirstNameIn(EntriesOf(SourceOf(j)))
          /\ {extracted_properties[j].d[k] : k \in DOMAIN extracted_properties[j].d \ BaseKeys}
                = PhonesIn(EntriesOf(SourceOf(j)))
    /\ pc = "phones" =>
          LET scanned == IF IsInstance(phone_numbers_list, "list")
                         THEN SubSeq(phone_numbers_list.l, 1, pidx - 1) ELSE <<>>
          IN  /\ prop_info.first_contact_name = FirstNameIn(scanned)
              /\ first_contact_found = (FirstNameIn(scanned) # NoneV)
              /\ unique_phones_for_property = PhonesIn(scanned)

\* C2 witness: a record emitted from two contacts with different non-empty names,
\* each with phones: the first name stands and the phones of both are there
C2_Witness ==
    \E j \in DOMAIN extracted_properties :
        /\ EntriesOf(SourceOf(j)) =
              << Dict([contact |-> Dict([full_name |-> S_A, phone_1 |-> Ph_9, phone_2 |-> Ph_1])]),
                 Dict([contact |-> Dict([full_name |-> S_B, phone_1 |-> Ph_10, phone_2 |-> Ph_9,
                                         phone_3 |-> Ph_5])]) >>
        /\ extracted_properties[j].d.first_contact_name = S_A
        /\ extracted_properties[j].d.phone_2 = Ph_5

\* C3: a malformed record is skipped and never aborts the request: once the
\* loop over a properties list has started, the request ends with 200 and the
\* flattening of the well-formed records.
C3_Isolation ==
    (pc = "done" /\ idx >= 1) =>
        /\ status = HTTP_200
        /\ Len(response.l) = Len(WellFormedOf(properties_list))

\* C4: an explicitly empty properties list gives 200 with an empty array, and a
\* results mapping without a properties key gives 400.
C4_EmptyProperties ==
    (pc = "done" /\ IsInstance(data, "dict") /\ "results" \in DOMAIN data.d
       /\ IsInstance(data.d.results, "dict")) =>
        /\ ("properties" \in DOMAIN data.d.results.d /\ data.d.results.d.properties = List(<<>>))
              => (status = HTTP_200 /\ response = List(<<>>))
        /\ (DOMAIN data.d.results.d # {} /\ "properties" \notin DOMAIN data.d.results.d)
              => status = HTTP_400

\* C5: a non-empty list body is accepted: its first element's
\* results.properties, or else the list itself, is the record list, which is
\* flattened and returned with 200.
C5_ListBody ==
    (pc = "done" /\ IsInstance(body, "list") /\ body.l # <<>>) =>
        LET first == body.l[1]
            records == IF first.t = "dict" /\ "results" \in DOMAIN first.d
                       THEN first.d.results.d.properties.l ELSE body.l
        IN  /\ status = HTTP_200
            /\ response = FlatList(records)

\* C6: every request ends in 200, 400 or 500; a 400 is a validation failure, and
\* a runtime fault that ends the request is reported as 500.
C6_StatusClasses ==
    pc = "done" =>
        /\ status \in {HTTP_200, HTTP_400, HTTP_500}
        /\ status = HTTP_400 => detail \in ValidationDetails
        /\ fault # "" => status = HTTP_500

\* C7: a request that returns 200 returns the flattening of the input
\* properties, in input order, with only the faulting records removed: at most
\* as many records as the input has, and as many when none faults.
C7_OrderedSubset ==
    (pc = "done" /\ status = HTTP_200) =>
        /\ response = FlatList(properties_list)
        /\ Len(response.l) <= Len(properties_list)
        /\ (\A i \in DOMAIN properties_list : ~Malformed(properties_list[i]))
              => Len(response.l) = Len(properties_list)
        /\ \A j \in DOMAIN emitted_from : \A k \in DOMAIN emitted_from :
              j < k => emitted_from[j] < emitted_from[k]

\* C7 witness: 200 for three records of which the middle one faulted: the two
\* others are returned, in their order
C7_Witness ==
    /\ pc = "done"
    /\ status = HTTP_200
    /\ properties_list = <<R_full, R_flagsnull, R_empty>>
    /\ Len(response.l) = 2
    /\ response.l[1].d.property_id = S_P2
    /\ response.l[2].d.property_id = NoneV

\* C8: flags is the sequence of the labels of the property_flags entries that
\* are objects with a non-empty label, in input order with duplicates kept; the
\* other entries are dropped and never fail the record.
C8_Flags ==
    /\ \A j \in DOMAIN extracted_properties :
          extracted_properties[j].d.flags = List(LabelsIn(FlagsOf(SourceOf(j))))
    /\ (pc = "prop_except" /\ IsInstance(property_data, "dict")
          /\ GetOr(property_data, "property_flags", List(<<>>)).t = "list")
          => HasUnhashablePhone(property_data)

\* C8 witness: the flags [A, A, {notlabel}, B] came out as [A, A, B]
C8_Witness ==
    \E j \in DOMAIN extracted_properties :
        /\ FlagsOf(SourceOf(j)) = << Dict([label |-> S_A]), Dict([label |-> S_A]),
                                     Dict([notlabel |-> S_x]), Dict([label |-> S_B]) >>
        /\ extracted_properties[j].d.flags = List(<<S_A, S_A, S_B>>)

\* C9: flattening never fails for a record that is a mapping: the per-record
\* handler is never entered for one, and a finished loop has emitted every
\* mapping of the list.
C9_MappingNeverFails ==
    /\ pc = "prop_except" => ~IsInstance(property_data, "dict")
    /\ (pc = "done" /\ status = HTTP_200) =>
          Len(response.l) = Cardinality({i \in DOMAIN properties_list :
                                            IsInstance(properties_list[i], "dict")})

\* the body, once decoded, fails one of the shape rules
InvalidShape(v) ==
    \/ v.t # "dict"
    \/ DOMAIN v.d = {}
    \/ "results" \notin DOMAIN v.d
    \/ v.d.results.t # "dict"
    \/ "properties" \notin DOMAIN v.d.results.d
    \/ v.d.results.d.properties.t # "list"

\* C10: validation is eager and all-or-nothing: a validation failure is raised
\* before any record is taken from the list, a body of invalid shape never
\* reaches the loop and ends with an error, and an error response carries no
\* flattened record.
C10_EagerValidation ==
    /\ detail \in ValidationDetails =>
          /\ idx = 0
          /\ extracted_properties = <<>>
          /\ property_data = NoneV
    /\ InvalidShape(data) => idx = 0
    /\ (pc = "done" /\ InvalidShape(data)) =>
          /\ status \in {HTTP_400, HTTP_500}
          /\ fault = "" => (status = HTTP_400 /\ detail \in ValidationDetails)
    /\ status \in {HTTP_400, HTTP_500} => response = ErrorBody(detail)

\* C10 witness: a body whose properties is not a list was rejected with 400
\* before the loop started
C10_Witness ==
    /\ pc = "done"
    /\ body = Envelope(S_x)
    /\ status = HTTP_400
    /\ detail = D_PropertiesNotList
    /\ idx = 0

====
